---------------------------- MODULE Spec2Model ----------------------------
(***************************************************************************)
(* A model of the react-md components of this repository:                  *)
(*   GridCell            (grid cell: props + app size -> style, classes)   *)
(*   ConditionalPortal   (props -> children in place or inside a Portal)   *)
(*   Select              (controlled select: visible/focused flags)        *)
(*   the prop-types guard at the end of every component module             *)
(*   withRipples         (higher order component: hooks called per render) *)
(*                                                                         *)
(* Optional JavaScript values are sequences of length <= 1: <<>> is        *)
(* `undefined`, <<v>> is the value v.  Grid line values (number | string)  *)
(* are carried as their CSS text.                                          *)
(***************************************************************************)
EXTENDS Integers, Sequences, FiniteSets, TLC

VARIABLES
    gridProps,      \* GridCell: the props of the render
    gridApp,        \* GridCell: the value of useAppSizeContext()
    gridOut,        \* GridCell: the rendered element (or NotRendered)
    portalProps,    \* ConditionalPortal: the props of the render
    portalOut,      \* ConditionalPortal: what the render returned
    selProps,       \* Select: disabled, and which caller handlers are given
    selValue,       \* Select: the caller's state behind the value prop
    visible,        \* Select: useToggle(false), the listbox is shown
    focused,        \* Select: useFocusState
    selectRef,      \* Select: selectRef.current ("null" or "div")
    domFocus,       \* Select: the element that has the document's focus
    selEvent,       \* Select: the event the last step handled
    selEffects,     \* Select: the calls the last handler made
    selView,        \* Select: the props of the last render's elements
    disabledSinceMount, \* Select: disabled was true on every render so far
    nodeEnv,        \* module load: process.env.NODE_ENV
    propTypesInstalled, \* module load: require("prop-types") resolves
    loadPc,         \* module load: where each component's module is
    loadPropTypes,  \* module load: each module's local PropTypes variable
    component,      \* module load: each component object's fields
    rippleDisabled, \* withRipples: disableRipple as useRipplesState gives it
    ripples,        \* withRipples: the ripples state of useRipplesState
    pressed,        \* withRipples: the pressed state of usePressedStates
    hookCalls,      \* withRipples: the hooks the last render called, in order
    prevHookCalls,  \* withRipples: the hooks the render before it called
    rippleOut       \* withRipples: the props given to the wrapped component

gridVars   == <<gridProps, gridApp, gridOut>>
portalVars == <<portalProps, portalOut>>
selVars    == <<selProps, selValue, visible, focused, selectRef, domFocus,
                selEvent, selEffects, selView, disabledSinceMount>>
loadVars   == <<nodeEnv, propTypesInstalled, loadPc, loadPropTypes, component>>
rippleVars == <<rippleDisabled, ripples, pressed, hookCalls, prevHookCalls,
                rippleOut>>
vars       == <<gridProps, gridApp, gridOut, portalProps, portalOut,
                selProps, selValue, visible, focused, selectRef, domFocus,
                selEvent, selEffects, selView, disabledSinceMount,
                nodeEnv, propTypesInstalled, loadPc, loadPropTypes, component,
                rippleDisabled, ripples, pressed, hookCalls, prevHookCalls,
                rippleOut>>

None    == <<>>
Some(v) == <<v>>

\* JavaScript truthiness of an optional number, boolean or string.
TruthyNum(o)  == o # None /\ o[1] # 0
TruthyBool(o) == o # None /\ o[1]
TruthyStr(o)  == o # None /\ o[1] # ""

\* destructuring default:  ({ x = dflt } = obj)
Default(o, dflt) == IF o = None THEN dflt ELSE o

(***************************************************************************)
(* Bounds                                                                  *)
(***************************************************************************)
MaxSpan == 2
MaxOptions == 2
MaxRipples == 3

Spans == {None} \cup {Some(n) : n \in 0..MaxSpan}

(***************************************************************************)
(* GridCell                                                                *)
(***************************************************************************)
NotRendered == [kind |-> "none"]

NoCSS == [rowSpan |-> None, rowStart |-> None, rowEnd |-> None,
          colStart |-> None, colEnd |-> None]

\* the override object a caller gives for each breakpoint
PhoneCSS        == [NoCSS EXCEPT !.rowSpan = Some(1), !.colEnd = Some("7")]
TabletCSS       == [NoCSS EXCEPT !.rowEnd = Some("6"), !.colStart = Some("2")]
DesktopCSS      == [NoCSS EXCEPT !.rowSpan = Some(2), !.rowEnd = Some("8"),
                                 !.colEnd = Some("9")]
LargeDesktopCSS == [NoCSS EXCEPT !.rowStart = Some("3"), !.colEnd = Some("11")]

NoStyle == [gridColumnStart |-> None, gridColumnEnd |-> None,
            gridRowStart |-> None, gridRowEnd |-> None]
\* a caller's style prop; a key at None is a key the object does not have
Styles == {NoStyle,
           [NoStyle EXCEPT !.gridRowEnd = Some("auto"),
                           !.gridColumnEnd = Some("-1")]}

GridPropsSet ==
    [colSpan : Spans, colStart : {None}, colEnd : {None, Some("5")},
     rowSpan : Spans, rowStart : {None}, rowEnd : {None, Some("4")},
     phone : {None, Some(PhoneCSS)}, tablet : {None, Some(TabletCSS)},
     desktop : {None, Some(DesktopCSS)},
     largeDesktop : {None, Some(LargeDesktopCSS)},
     style : Styles, className : {None, Some("custom")}]

\* the app sizes useAppSizeContext() reports: a screen is a phone, a tablet
\* or a desktop, and a large desktop is a desktop
AppSizes ==
    {a \in [isPhone : BOOLEAN, isTablet : BOOLEAN, isDesktop : BOOLEAN,
            isLargeDesktop : BOOLEAN] :
        /\ Cardinality({k \in {"isPhone", "isTablet", "isDesktop"} : a[k]}) = 1
        /\ a.isLargeDesktop => a.isDesktop}

\* the children of a GridCell, as far as the clone path reads them
Children == {[isElement |-> FALSE, className |-> None, style |-> NoStyle],
             [isElement |-> TRUE, className |-> None, style |-> NoStyle],
             [isElement |-> TRUE, className |-> Some("child"),
              style |-> [NoStyle EXCEPT !.gridRowEnd = Some("2")]]}

\* `${value}` of an optional number
TemplateString(o) == IF o = None THEN "undefined" ELSE ToString(o[1])

\* bem(base)(element, modifiers): the element's class, and one
\* base__element--name class for every modifier whose value is truthy (the
\* callers pass `a && b` chains and optional nodes as modifier values:
\* FloatingLabel.tsx 63-71, Select.tsx 331-336).
\* modifiers is a set of <<name, value>> pairs.
bem(base, element, modifiers) ==
    LET el == base \o "__" \o element
    IN  {el} \cup {el \o "--" \o m[1] : m \in {x \in modifiers : TruthyNum(x[2])}}

\* classnames: the class tokens of its truthy arguments
cn(tokens, className) ==
    tokens \cup (IF TruthyStr(className) THEN {className[1]} ELSE {})

\* { ...under, ...over }: a key of `over` wins when `over` has it
Spread(under, over) ==
    [k \in DOMAIN under |-> IF over[k] # None THEN over[k] ELSE under[k]]

\* { ...under, ...cellStyle }: cellStyle is an object literal that always has
\* its four keys (at undefined when unset), so each of them wins
SpreadCellStyle(under, cellStyle) == [k \in DOMAIN under |-> cellStyle[k]]

\* which override the render picks, by name
MediaName(app, p) ==
    IF app.isPhone /\ p.phone # None THEN "phone"
    ELSE IF app.isTablet /\ p.tablet # None THEN "tablet"
    ELSE IF app.isDesktop /\ p.desktop # None THEN "desktop"
    ELSE IF app.isLargeDesktop /\ p.largeDesktop # None THEN "largeDesktop"
    ELSE "none"

Media(app, p) ==
    LET n == MediaName(app, p)
    IN  IF n = "none" THEN None ELSE p[n]

\* the grid properties after the media override is destructured over them
Effective(app, p) ==
    LET media == Media(app, p)
        own == [rowSpan |-> p.rowSpan, rowStart |-> p.rowStart,
                rowEnd |-> p.rowEnd, colStart |-> p.colStart,
                colEnd |-> p.colEnd]
    IN  IF media = None THEN own
        ELSE [k \in DOMAIN own |-> Default(media[1][k], own[k])]

GridRowEnd(rowSpan, rowEnd) ==
    IF TruthyNum(rowSpan) THEN Some("span " \o ToString(rowSpan[1])) ELSE rowEnd

GridColumnEnd(colSpan, colEnd) == colEnd

CellStyleBase(app, p) ==
    LET e == Effective(app, p)
    IN  [gridColumnStart |-> e.colStart,
         gridColumnEnd |-> GridColumnEnd(p.colSpan, e.colEnd),
         gridRowStart |-> e.rowStart,
         gridRowEnd |-> GridRowEnd(e.rowSpan, e.rowEnd)]

CellStyle(app, p) == Spread(CellStyleBase(app, p), p.style)

CellClassName(p) ==
    cn(bem("rmd-grid", "cell", {<<TemplateString(p.colSpan), p.colSpan>>}),
       p.className)

\* the element GridCell returns
GridCell(app, p, clone, child) ==
    IF clone /\ child.isElement
    THEN [kind |-> "clone", media |-> MediaName(app, p),
          style |-> SpreadCellStyle(child.style, CellStyle(app, p)),
          classList |-> cn(CellClassName(p), child.className)]
    ELSE [kind |-> "div", media |-> MediaName(app, p),
          style |-> CellStyle(app, p),
          classList |-> CellClassName(p)]

GridInit ==
    /\ gridProps \in GridPropsSet
    /\ gridApp \in AppSizes
    /\ gridOut = NotRendered

\* no GridCell is rendered
GridIdle ==
    /\ gridProps = None
    /\ gridApp = None
    /\ gridOut = NotRendered

RenderGridCell ==
    /\ gridOut = NotRendered
    /\ \E child \in Children :
          gridOut' = GridCell(gridApp, gridProps, FALSE, child)
    /\ UNCHANGED <<gridProps, gridApp>>
    /\ UNCHANGED <<portalVars, selVars, loadVars, rippleVars>>

RenderGridCellClone ==
    /\ gridOut = NotRendered
    /\ \E child \in Children :
          gridOut' = GridCell(gridApp, gridProps, TRUE, child)
    /\ UNCHANGED <<gridProps, gridApp>>
    /\ UNCHANGED <<portalVars, selVars, loadVars, rippleVars>>

(***************************************************************************)
(* ConditionalPortal                                                       *)
(***************************************************************************)
\* portalInto: a selector string, a function or an element (all but the
\* empty string are truthy)
PortalIntos   == {None, Some(""), Some("#main"), Some("<function>")}
PortalIntoIds == {None, Some(""), Some("portal-root")}
PortalPropsSet ==
    [portal : {None, Some(FALSE), Some(TRUE)}, portalInto : PortalIntos,
     portalIntoId : PortalIntoIds, visible : BOOLEAN,
     children : {"null", "<element>"}]

\* mutant: the early return forgets portalIntoId
RendersInPlaceNoId(p) == ~TruthyBool(p.portal) /\ ~TruthyStr(p.portalInto)

\* the condition of the early return
RendersInPlace(p) ==
    ~TruthyBool(p.portal) /\ ~TruthyStr(p.portalInto)
        /\ ~TruthyStr(p.portalIntoId)

\* what ConditionalPortal returns
ConditionalPortal(p) ==
    IF RendersInPlace(p)
    THEN [kind |-> "children", children |-> p.children,
          into |-> None, intoId |-> None, visible |-> None]
    ELSE [kind |-> "Portal", children |-> p.children,
          into |-> p.portalInto, intoId |-> p.portalIntoId,
          visible |-> Some(p.visible)]

\* no ConditionalPortal is rendered
PortalIdle ==
    /\ portalProps = None
    /\ portalOut = NotRendered

RenderConditionalPortal ==
    /\ \E p \in PortalPropsSet :
          /\ portalProps' = Some(p)
          /\ portalOut' = ConditionalPortal(p)
    /\ UNCHANGED <<gridVars, selVars, loadVars, rippleVars>>

(***************************************************************************)
(* Select                                                                  *)
(***************************************************************************)
\* const options = Array.from({ length: n }, (_, i) => `Option ${i + 1}`)
Options == {"Option " \o ToString(i + 1) : i \in 0..(MaxOptions - 1)}
\* useState(""), then whatever the listbox hands to onChange
Values == {""} \cup Options

Keys == {" ", "ArrowUp", "ArrowDown", "Enter", "Escape", "a"}

NoEvent == [type |-> "none", key |-> ""]
Event(t) == [type |-> t, key |-> ""]

\* useToggle(false): [visible, show, hide]
show == TRUE
hide == FALSE

\* typeof value === "number" || !!value, for the string values
Valued(value) == value # ""

\* mutant: the key handler stays attached on a disabled select
OnKeyDownPropAlways(disabled) == "handleKeyDown"

OnKeyDownProp(disabled) == IF disabled THEN "undefined" ELSE "handleKeyDown"
OnClickProp(disabled)   == IF disabled THEN "undefined" ELSE "handleClick"
AriaDisabled(disabled)  == IF disabled THEN Some(TRUE) ELSE None
TabIndex(disabled)      == IF disabled THEN None ELSE Some(0)

\* mutant: the listbox is given the value of the mount
ListboxValueStale(value) == ""

\* <Listbox value={value} />
ListboxValue(value) == value

\* displayValue: the label of the option whose value is `value`, the
\* options being strings that are their own value and label; None when no
\* option has the value
DisplayValue(value) == IF value \in Options THEN Some(value) ELSE None

\* useCloseOnOutsideClick({ enabled: visible, ... })
OutsideClickEnabled(vis) == vis

\* what the render hands to TextFieldContainer, FloatingLabel, Listbox and
\* useCloseOnOutsideClick
RenderSelect(props, value, vis, foc) ==
    [onKeyDown |-> OnKeyDownProp(props.disabled),
     onClick |-> OnClickProp(props.disabled),
     ariaDisabled |-> AriaDisabled(props.disabled),
     tabIndex |-> TabIndex(props.disabled),
     active |-> foc \/ vis,
     labelActive |-> Valued(value) /\ (foc \/ vis),
     labelFloating |-> foc \/ Valued(value) \/ vis,
     displayValue |-> DisplayValue(value),
     listboxValue |-> ListboxValue(value),
     listboxOnChange |-> "props.onChange",
     listboxVisible |-> vis,
     onRequestClose |-> "handleKeyboardClose",
     outsideClickEnabled |-> OutsideClickEnabled(vis)]

SelPropsSet == [disabled : BOOLEAN, onClick : BOOLEAN, onKeyDown : BOOLEAN,
                inForm : BOOLEAN]

\* the first render, before the ref callback has run
SelectInit ==
    /\ selProps \in SelPropsSet
    /\ selValue = ""
    /\ visible = FALSE
    /\ focused = FALSE
    /\ selectRef = "null"
    /\ domFocus = "elsewhere"
    /\ selEvent = NoEvent
    /\ selEffects = {}
    /\ selView = RenderSelect(selProps, "", FALSE, FALSE)
    /\ disabledSinceMount = selProps.disabled

\* no Select is rendered
SelectIdle ==
    /\ selProps = None
    /\ selValue = ""
    /\ visible = FALSE
    /\ focused = FALSE
    /\ selectRef = "null"
    /\ domFocus = "elsewhere"
    /\ selEvent = NoEvent
    /\ selEffects = {}
    /\ selView = NotRendered
    /\ disabledSinceMount = FALSE

Mounted == selectRef # "null"

\* the state update of one handler, then the render that follows it
Update(ev, effects, vis, foc, focus) ==
    /\ selEvent' = ev
    /\ selEffects' = effects
    /\ visible' = vis
    /\ focused' = foc
    /\ domFocus' = focus
    /\ selView' = RenderSelect(selProps', selValue', vis, foc)

\* the commit of the first render: ref(instance)
Mount ==
    /\ UNCHANGED <<selProps, selValue, disabledSinceMount>>
    /\ ~Mounted
    /\ selectRef' = "div"
    /\ Update(Event("mount"), {"applyRef"}, visible, focused, domFocus)
    /\ UNCHANGED <<gridVars, portalVars, loadVars, rippleVars>>

\* the caller renders the Select again with another disabled prop
SetDisabled ==
    /\ UNCHANGED <<selValue, selectRef>>
    /\ Mounted
    /\ \E d \in BOOLEAN :
          /\ d # selProps.disabled
          /\ selProps' = [selProps EXCEPT !.disabled = d]
          /\ disabledSinceMount' = (disabledSinceMount /\ d)
    /\ Update(Event("props"), {}, visible, focused, domFocus)
    /\ UNCHANGED <<gridVars, portalVars, loadVars, rippleVars>>

\* handleClick
handleClick ==
    Update(Event("click"),
           IF selProps.onClick THEN {"props.onClick"} ELSE {},
           show, focused, domFocus)

\* a click on the select's container
Click ==
    /\ UNCHANGED <<selProps, selValue, selectRef, disabledSinceMount>>
    /\ Mounted
    /\ IF selView.onClick = "handleClick"
       THEN handleClick
       ELSE Update(Event("click"), {}, visible, focused, domFocus)
    /\ UNCHANGED <<gridVars, portalVars, loadVars, rippleVars>>

\* handleKeyDown
handleKeyDown(key) ==
    LET ev == [type |-> "keydown", key |-> key]
        caller == IF selProps.onKeyDown THEN {"props.onKeyDown"} ELSE {}
    IN  IF key \in {" ", "ArrowUp", "ArrowDown"}
        THEN Update(ev, caller \cup {"preventDefault"}, show, focused, domFocus)
        ELSE IF key = "Enter"
        THEN Update(ev,
                    caller \cup (IF selProps.inForm THEN {"form.submit"} ELSE {}),
                    visible, focused, domFocus)
        ELSE Update(ev, caller, visible, focused, domFocus)

\* a keydown on the select's container, which has the focus
KeyDown ==
    /\ UNCHANGED <<selProps, selValue, selectRef, disabledSinceMount>>
    /\ Mounted
    /\ domFocus = "select"
    /\ \E key \in Keys :
          IF selView.onKeyDown = "handleKeyDown"
          THEN handleKeyDown(key)
          ELSE Update([type |-> "keydown", key |-> key], {}, visible, focused,
                      domFocus)
    /\ UNCHANGED <<gridVars, portalVars, loadVars, rippleVars>>

\* the select's container takes the focus (it is tabbable): handleFocus
Focus ==
    /\ UNCHANGED <<selProps, selValue, selectRef, disabledSinceMount>>
    /\ Mounted
    /\ domFocus # "select"
    /\ selView.tabIndex # None
    /\ Update(Event("focus"), {}, visible, TRUE, "select")
    /\ UNCHANGED <<gridVars, portalVars, loadVars, rippleVars>>

\* the select's container loses the focus: handleBlur
Blur ==
    /\ UNCHANGED <<selProps, selValue, selectRef, disabledSinceMount>>
    /\ Mounted
    /\ domFocus = "select"
    /\ Update(Event("blur"), {}, visible, FALSE, "elsewhere")
    /\ UNCHANGED <<gridVars, portalVars, loadVars, rippleVars>>

\* useFixedPositioning's onEntering: node.focus() on the listbox, which
\* takes the focus from the select when it had it
ListboxEntering ==
    /\ UNCHANGED <<selProps, selValue, selectRef, disabledSinceMount>>
    /\ Mounted
    /\ selView.listboxVisible
    /\ domFocus # "listbox"
    /\ Update(Event("entering"), {"listbox.focus"}, visible,
              IF domFocus = "select" THEN FALSE ELSE focused, "listbox")
    /\ UNCHANGED <<gridVars, portalVars, loadVars, rippleVars>>

\* the listbox reports a chosen option: the onChange prop, which is the
\* caller's handleChange: setValue(nextValue)
ListboxChange ==
    /\ UNCHANGED <<selProps, selectRef, disabledSinceMount>>
    /\ Mounted
    /\ selView.listboxVisible
    /\ \E v \in Options : selValue' = v
    /\ Update(Event("change"), {selView.listboxOnChange}, visible, focused,
              domFocus)
    /\ UNCHANGED <<gridVars, portalVars, loadVars, rippleVars>>

\* where the focus is once the listbox, which held it, is hidden
AfterHide(focus) == IF focus = "listbox" THEN "elsewhere" ELSE focus

\* a click outside of the select while the listener is enabled:
\* onOutsideClick: hide
OutsideClick ==
    /\ UNCHANGED <<selProps, selValue, selectRef, disabledSinceMount>>
    /\ Mounted
    /\ selView.outsideClickEnabled
    /\ Update(Event("outsideClick"), {}, hide,
              IF domFocus = "select" THEN FALSE ELSE focused, "elsewhere")
    /\ UNCHANGED <<gridVars, portalVars, loadVars, rippleVars>>

\* mutant: the keyboard close forgets to hide the listbox
handleKeyboardCloseNoHide ==
    Update(Event("keyboardClose"), {"select.focus"}, visible, focused, domFocus)

\* handleKeyboardClose: hide(), then selectRef.current.focus(), which
\* moves the focus when the element is focusable (has its tabIndex)
handleKeyboardClose ==
    IF selectRef # "null"
    THEN IF selView.tabIndex # None
         THEN Update(Event("keyboardClose"), {"select.focus"}, hide, TRUE,
                     "select")
         ELSE Update(Event("keyboardClose"), {"select.focus"}, hide, focused,
                     AfterHide(domFocus))
    ELSE Update(Event("keyboardClose"), {}, hide, focused, AfterHide(domFocus))

\* the listbox, which has the focus, asks to be closed (onRequestClose)
KeyboardClose ==
    /\ UNCHANGED <<selProps, selValue, selectRef, disabledSinceMount>>
    /\ Mounted
    /\ selView.listboxVisible
    /\ domFocus = "listbox"
    /\ handleKeyboardClose
    /\ UNCHANGED <<gridVars, portalVars, loadVars, rippleVars>>

(***************************************************************************)
(* The prop-types guard that ends each component module                   *)
(***************************************************************************)
Components == {"Select", "FloatingLabel", "ConditionalPortal", "GridCell"}
NodeEnvs   == {"production", "development", "test"}

\* `let PropTypes;` or `let PropTypes = null;`
PropTypesDeclared(c) ==
    IF c \in {"Select", "GridCell"} THEN "undefined" ELSE "null"

\* the modules that set Component.displayName inside the guard
SetsDisplayName(c) == c # "ConditionalPortal"

NoComponent == [defined |-> FALSE, displayName |-> None, propTypes |-> FALSE,
                exported |-> FALSE]

\* mutant: require("prop-types") outside of a try block
RequireUnguarded(installed, current) ==
    IF installed THEN [value |-> "module", thrown |-> FALSE]
    ELSE [value |-> current, thrown |-> TRUE]

\* try { PropTypes = require("prop-types"); } catch (e) {}
TryRequire(installed, current) ==
    IF installed THEN [value |-> "module", thrown |-> FALSE]
    ELSE [value |-> current, thrown |-> FALSE]

\* if (PropTypes)
TruthyPropTypes(v) == v = "module"

LoadInit ==
    /\ nodeEnv \in NodeEnvs
    /\ propTypesInstalled \in BOOLEAN
    /\ loadPc = [c \in Components |-> "define"]
    /\ loadPropTypes = [c \in Components |-> "undeclared"]
    /\ component = [c \in Components |-> NoComponent]

\* no module is being evaluated
LoadIdle ==
    /\ nodeEnv = "production"
    /\ propTypesInstalled = FALSE
    /\ loadPc = <<>>
    /\ loadPropTypes = <<>>
    /\ component = <<>>

\* const Component: FC<...> = ...
DefineComponent(c) ==
    /\ loadPc[c] = "define"
    /\ component' = [component EXCEPT ![c].defined = TRUE]
    /\ loadPc' = [loadPc EXCEPT ![c] = "guard"]
    /\ UNCHANGED <<nodeEnv, propTypesInstalled, loadPropTypes>>
    /\ UNCHANGED <<gridVars, portalVars, selVars, rippleVars>>

\* if (process.env.NODE_ENV !== "production") { displayName; let PropTypes
EnterGuard(c) ==
    /\ loadPc[c] = "guard"
    /\ nodeEnv # "production"
    /\ component' = [component EXCEPT ![c].displayName =
                        IF SetsDisplayName(c) THEN Some(c) ELSE None]
    /\ loadPropTypes' = [loadPropTypes EXCEPT ![c] = PropTypesDeclared(c)]
    /\ loadPc' = [loadPc EXCEPT ![c] = "require"]
    /\ UNCHANGED <<nodeEnv, propTypesInstalled>>
    /\ UNCHANGED <<gridVars, portalVars, selVars, rippleVars>>

\* the guard is false in production: the block is skipped
SkipGuard(c) ==
    /\ loadPc[c] = "guard"
    /\ nodeEnv = "production"
    /\ loadPc' = [loadPc EXCEPT ![c] = "export"]
    /\ UNCHANGED <<nodeEnv, propTypesInstalled, loadPropTypes, component>>
    /\ UNCHANGED <<gridVars, portalVars, selVars, rippleVars>>

\* the try block; an exception that leaves it ends the module's evaluation
RequirePropTypes(c) ==
    /\ loadPc[c] = "require"
    /\ LET r == TryRequire(propTypesInstalled, loadPropTypes[c])
       IN  /\ loadPropTypes' = [loadPropTypes EXCEPT ![c] = r.value]
           /\ loadPc' = [loadPc EXCEPT ![c] =
                            IF r.thrown THEN "thrown" ELSE "attach"]
    /\ UNCHANGED <<nodeEnv, propTypesInstalled, component>>
    /\ UNCHANGED <<gridVars, portalVars, selVars, rippleVars>>

\* if (PropTypes) { Component.propTypes = {...} }
AttachPropTypes(c) ==
    /\ loadPc[c] = "attach"
    /\ component' = [component EXCEPT ![c].propTypes =
                        TruthyPropTypes(loadPropTypes[c])]
    /\ loadPc' = [loadPc EXCEPT ![c] = "export"]
    /\ UNCHANGED <<nodeEnv, propTypesInstalled, loadPropTypes>>
    /\ UNCHANGED <<gridVars, portalVars, selVars, rippleVars>>

\* export default ...
ExportComponent(c) ==
    /\ loadPc[c] = "export"
    /\ component' = [component EXCEPT ![c].exported = TRUE]
    /\ loadPc' = [loadPc EXCEPT ![c] = "done"]
    /\ UNCHANGED <<nodeEnv, propTypesInstalled, loadPropTypes>>
    /\ UNCHANGED <<gridVars, portalVars, selVars, rippleVars>>

(***************************************************************************)
(* withRipples                                                             *)
(***************************************************************************)
\* where a press starts a ripple
RippleOrigins == {"center", "pointer"}

\* the hooks one render of WithRipples calls, in order
HooksOfRender(isRippleDisabled) ==
    IF ~isRippleDisabled
    THEN <<"useRipplesState">>
    ELSE <<"useRipplesState", "usePressedStates">>

\* the props WithRipples gives to the wrapped component
WithRipples(isRippleDisabled, rs, isPressed) ==
    IF ~isRippleDisabled
    THEN [ripples |-> Some(rs), handlers |-> "useRipplesState",
          pressedClass |-> FALSE]
    ELSE [ripples |-> None, handlers |-> "usePressedStates",
          pressedClass |-> isPressed]

RippleInit ==
    /\ rippleDisabled \in BOOLEAN
    /\ ripples = <<>>
    /\ pressed = FALSE
    /\ hookCalls = <<>>
    /\ prevHookCalls = <<>>
    /\ rippleOut = NotRendered

\* no wrapped component is rendered
RippleIdle ==
    /\ rippleDisabled = FALSE
    /\ ripples = <<>>
    /\ pressed = FALSE
    /\ hookCalls = <<>>
    /\ prevHookCalls = <<>>
    /\ rippleOut = NotRendered

RippleMounted == hookCalls # <<>>

\* one render of WithRipples with the state as it now is
RenderRipples(first, isRippleDisabled, rs, isPressed) ==
    /\ rippleDisabled' = isRippleDisabled
    /\ ripples' = rs
    /\ pressed' = isPressed
    /\ prevHookCalls' = IF first THEN <<>> ELSE hookCalls
    /\ hookCalls' = HooksOfRender(isRippleDisabled)
    /\ rippleOut' = WithRipples(isRippleDisabled, rs, isPressed)

\* the first render
MountRipples ==
    /\ ~RippleMounted
    /\ RenderRipples(TRUE, rippleDisabled, ripples, pressed)
    /\ UNCHANGED <<gridVars, portalVars, selVars, loadVars>>

\* the parent renders the component again, with any disableRipple
RerenderRipples ==
    /\ RippleMounted
    /\ \E d \in BOOLEAN : RenderRipples(FALSE, d, ripples, pressed)
    /\ UNCHANGED <<gridVars, portalVars, selVars, loadVars>>

\* a press: the handlers of the last render start a ripple or set pressed
Press ==
    /\ RippleMounted
    /\ IF rippleOut.handlers = "useRipplesState"
       THEN /\ Len(ripples) < MaxRipples
            /\ \E o \in RippleOrigins :
                  RenderRipples(FALSE, rippleDisabled, Append(ripples, o),
                                pressed)
       ELSE /\ ~pressed
            /\ RenderRipples(FALSE, rippleDisabled, ripples, TRUE)
    /\ UNCHANGED <<gridVars, portalVars, selVars, loadVars>>

\* a release: the pressed state is reset
Release ==
    /\ RippleMounted
    /\ rippleOut.handlers = "usePressedStates"
    /\ pressed
    /\ RenderRipples(FALSE, rippleDisabled, ripples, FALSE)
    /\ UNCHANGED <<gridVars, portalVars, selVars, loadVars>>

\* RippleContainer removes a ripple that has finished: setRipples
RippleExited ==
    /\ RippleMounted
    /\ rippleOut.ripples # None
    /\ ripples # <<>>
    /\ RenderRipples(FALSE, rippleDisabled, Tail(ripples), pressed)
    /\ UNCHANGED <<gridVars, portalVars, selVars, loadVars>>

(***************************************************************************)
(* Specifications, one per component                                      *)
(***************************************************************************)
InitGrid == GridInit /\ PortalIdle /\ SelectIdle /\ LoadIdle /\ RippleIdle

GridNext == RenderGridCell \/ RenderGridCellClone

SpecGrid == InitGrid /\ [][GridNext]_vars

InitPortal == PortalIdle /\ GridIdle /\ SelectIdle /\ LoadIdle /\ RippleIdle

PortalNext == RenderConditionalPortal

SpecPortal == InitPortal /\ [][PortalNext]_vars

InitSelect == SelectInit /\ GridIdle /\ PortalIdle /\ LoadIdle /\ RippleIdle

SelectNext ==
    \/ Mount
    \/ SetDisabled
    \/ Click
    \/ KeyDown
    \/ Focus
    \/ Blur
    \/ ListboxEntering
    \/ ListboxChange
    \/ OutsideClick
    \/ KeyboardClose

SpecSelect == InitSelect /\ [][SelectNext]_vars

InitLoad == LoadInit /\ GridIdle /\ PortalIdle /\ SelectIdle /\ RippleIdle

LoadNext ==
    \E c \in Components :
        \/ DefineComponent(c)
        \/ EnterGuard(c)
        \/ SkipGuard(c)
        \/ RequirePropTypes(c)
        \/ AttachPropTypes(c)
        \/ ExportComponent(c)

SpecLoad == InitLoad /\ [][LoadNext]_vars

InitRipples == RippleInit /\ GridIdle /\ PortalIdle /\ SelectIdle /\ LoadIdle

RipplesNext ==
    \/ MountRipples
    \/ RerenderRipples
    \/ Press
    \/ Release
    \/ RippleExited

SpecRipples == InitRipples /\ [][RipplesNext]_vars

(***************************************************************************)
(* GridCell: claims                                                        *)
(***************************************************************************)
SpanToken(n) == "rmd-grid__cell--" \o ToString(n)
SpanTokens   == {SpanToken(n) : n \in 0..(MaxSpan + 1)}
                    \cup {"rmd-grid__cell--undefined"}

Rendered == gridOut # NotRendered

\* only the named breakpoint has an override object
OnlyOverride(name) ==
    \A b \in {"phone", "tablet", "desktop", "largeDesktop"} :
        (gridProps[b] # None) <=> (b = name)

\* C1: every render with a colSpan prop n has the span-n modifier class of
\* the rmd-grid cell element in its class list, and a render without a
\* colSpan prop has no span class.
C1_SpanTokenForEveryColSpan ==
    Rendered =>
        /\ gridProps.colSpan # None =>
              SpanToken(gridProps.colSpan[1]) \in gridOut.classList
        /\ gridProps.colSpan = None =>
              gridOut.classList \cap SpanTokens = {}

\* C5: a provided rowSpan is used instead of rowEnd: gridRowEnd is
\* "span <rowSpan>" for every provided rowSpan whatever rowEnd is, and it is
\* rowEnd only when no rowSpan is provided (the caller's style prop not
\* setting gridRowEnd itself).
C5_RowSpanInsteadOfRowEnd ==
    LET e == Effective(gridApp, gridProps)
    IN  (Rendered /\ gridProps.style.gridRowEnd = None) =>
            IF e.rowSpan # None
            THEN gridOut.style.gridRowEnd
                    = Some("span " \o ToString(e.rowSpan[1]))
            ELSE gridOut.style.gridRowEnd = e.rowEnd

\* C6: with a (non-zero) colSpan provided, colEnd, top-level or from the
\* active media override, is ignored: it is not the rendered gridColumnEnd
\* (the caller's style prop not setting gridColumnEnd itself).
C6_ColEndIgnoredWithColSpan ==
    LET e == Effective(gridApp, gridProps)
    IN  (/\ Rendered
         /\ TruthyNum(gridProps.colSpan)
         /\ gridProps.style.gridColumnEnd = None
         /\ e.colEnd # None)
            => gridOut.style.gridColumnEnd # e.colEnd

\* C7: the per-breakpoint overrides are applied as documented, stated for
\* the renders with one override object: phone on phones only, tablet on
\* tablets and above, desktop on desktops, largeDesktop on large desktops.
C7_OverridesAsDocumented ==
    Rendered =>
        /\ gridOut.media = "phone" => gridApp.isPhone
        /\ (OnlyOverride("phone") /\ gridApp.isPhone)
              => gridOut.media = "phone"
        /\ (/\ OnlyOverride("tablet")
            /\ ~gridApp.isPhone
            /\ (gridApp.isTablet \/ gridApp.isDesktop \/ gridApp.isLargeDesktop))
              => gridOut.media = "tablet"
        /\ (OnlyOverride("desktop") /\ gridApp.isDesktop)
              => gridOut.media = "desktop"
        /\ (OnlyOverride("largeDesktop") /\ gridApp.isLargeDesktop)
              => gridOut.media = "largeDesktop"

C2_DisabledSelectIsInert ==
    /\ [](selProps.disabled =>
            /\ selView.tabIndex = None
            /\ selView.ariaDisabled = Some(TRUE)
            /\ selView.onClick = "undefined"
            /\ selView.onKeyDown = "undefined")
    /\ [](disabledSinceMount => ~visible)
    /\ [][(selProps.disabled /\ selEvent'.type \in {"click", "keydown"})
            => (visible' = visible /\ selEffects' = {})]_vars

\* a disabled select, in a form and given an onKeyDown prop, that has the
\* focus has just received Enter
C2_Witness ==
    /\ selProps.disabled
    /\ selProps.inForm
    /\ selProps.onKeyDown
    /\ selEvent = [type |-> "keydown", key |-> "Enter"]
    /\ domFocus = "select"

\* C3: the Select never changes the value: only the caller's onChange
\* handler, which the listbox is given as it is, does; every render shows
\* and hands the listbox exactly the current value.
C3_ValueIsControlled ==
    /\ [](/\ selView.listboxValue = selValue
          /\ selView.listboxOnChange = "props.onChange"
          /\ selView.displayValue
                = (IF selValue = "" THEN None ELSE Some(selValue)))
    /\ [][selValue' # selValue =>
            (selEvent'.type = "change"
                /\ selEffects' = {"props.onChange"})]_vars

\* a value chosen earlier is still the one shown after the listbox was
\* closed by a click outside
C3_Witness ==
    /\ selValue \in Options
    /\ selEvent.type = "outsideClick"
    /\ selView.listboxValue = selValue
    /\ ~visible

C9_PropTypesGuard ==
    \A c \in Components :
        /\ loadPc[c] # "thrown"
        /\ component[c].propTypes =>
              (nodeEnv # "production" /\ propTypesInstalled)
        /\ loadPc[c] = "done" =>
              /\ component[c].defined
              /\ component[c].exported
              /\ component[c].propTypes
                    <=> (nodeEnv # "production" /\ propTypesInstalled)

\* every module was evaluated in development without prop-types installed
C9_Witness ==
    /\ nodeEnv = "development"
    /\ ~propTypesInstalled
    /\ \A c \in Components :
          /\ loadPc[c] = "done"
          /\ component[c].exported
          /\ ~component[c].propTypes

\* C10: every render of one WithRipples instance calls the same hooks in the
\* same order as the render before it.
C10_SameHooksEveryRender ==
    prevHookCalls # <<>> => hookCalls = prevHookCalls

=============================================================================
